---- MODULE Spec2Model ----
(***************************************************************************)
(* Model of client_mining_p/blockchain.py: the Blockchain class (chain,    *)
(* pending transactions, block hashing, proof-of-work predicate) and the   *)
(* four Flask routes that drive it.                                        *)
(*                                                                         *)
(* Python objects: a dict is a sequence of <<key, value>> pairs in         *)
(* insertion order; a list lives in `heap` and is referred to by its       *)
(* position there, so that two names of one list share its contents.       *)
(* A string produced by json.dumps is a sequence of tokens (naturals).     *)
(* hashlib.sha256 is replaced by a small deterministic digest rendered as  *)
(* DigestLen hexadecimal digits.                                           *)
(*                                                                         *)
(* Spec     : every request is handled from start to end before the next.  *)
(* SpecConc : two server threads, suspended between any two statements.    *)
(***************************************************************************)
EXTENDS Integers, Sequences, FiniteSets, TLC

\* ---------------------------------------------------------------- bounds
MaxChain == 3
MaxPool == 2
MaxProof == 3

\* ------------------------------------------------------- program constants
GenesisProof == 100
GenesisPreviousHash == 1
Difficulty == 6
RewardAmount == 10
DigestLen == 8
DigestMod == 251

RewardSender == "0"

\* ------------------------------------------------------------ input sets
Senders == {"A"}
Recipients == {"B"}
Amounts == {5}
MinerIds == {"m1"}
Proofs == 0..MaxProof
Times == {1, 2}

\* ------------------------------------------------------------ dict helpers
Has(d, k) == \E i \in 1..Len(d) : d[i][1] = k

Get(d, k) == d[CHOOSE i \in 1..Len(d) : d[i][1] = k][2]

IsPrefix(s, t) == Len(s) <= Len(t) /\ SubSeq(t, 1, Len(s)) = s

\* previous_hash values: the genesis sentinel is the integer 1, every other
\* one is a hex string; both carry their digits.
IntValue(n) == [kind |-> "int", digits |-> <<n>>]

HexValue(ds) == [kind |-> "hex", digits |-> ds]

\* ------------------------------------------------------- json.dumps tokens
LBrace == 30
RBrace == 31
LBracket == 32
RBracket == 33
Quote == 34
KeyBase == 40
StrBase == 60

\* the field names in lexicographic order
KeyOrder ==
  <<"amount", "index", "previous_hash", "proof", "recipient", "sender",
    "timestamp", "transactions">>

StrTable == <<"0", "A", "B", "m1">>

KeyToken(k) == KeyBase + (CHOOSE i \in 1..Len(KeyOrder) : KeyOrder[i] = k)

StrTokens(s) ==
  <<Quote, StrBase + (CHOOSE i \in 1..Len(StrTable) : StrTable[i] = s), Quote>>

RECURSIVE Decimal(_)
Decimal(n) == IF n < 10 THEN <<n>> ELSE Decimal(n \div 10) \o <<n % 10>>

RECURSIVE Flatten(_)
Flatten(ss) == IF ss = <<>> THEN <<>> ELSE Head(ss) \o Flatten(Tail(ss))

\* keys of d in insertion order
InsertionKeys(d) == [i \in 1..Len(d) |-> d[i][1]]

\* keys of d sorted lexicographically (sort_keys=True)
SortedKeys(d) == SelectSeq(KeyOrder, LAMBDA k : Has(d, k))

\* the keys as json.dumps takes them without sort_keys
DumpKeys_unsorted(d) == InsertionKeys(d)

DumpKeys(d) == SortedKeys(d)

TxValueTokens(k, v) ==
  IF k = "amount" THEN Decimal(v) ELSE StrTokens(v)

dumps_tx(tx) ==
  LET ks == DumpKeys(tx)
  IN  <<LBrace>>
      \o Flatten([i \in 1..Len(ks) |->
                    <<KeyToken(ks[i])>> \o TxValueTokens(ks[i], Get(tx, ks[i]))])
      \o <<RBrace>>

BlockValueTokens(h, k, v) ==
  CASE k = "transactions" ->
         <<LBracket>>
         \o Flatten([i \in 1..Len(h[v]) |-> dumps_tx(h[v][i])])
         \o <<RBracket>>
    [] k = "previous_hash" ->
         IF v.kind = "int" THEN Decimal(v.digits[1])
                           ELSE <<Quote>> \o v.digits \o <<Quote>>
    [] OTHER -> Decimal(v)

\* json.dumps(block, sort_keys=True), the block's list read from heap h
dumps(h, block) ==
  LET ks == DumpKeys(block)
  IN  <<LBrace>>
      \o Flatten([i \in 1..Len(ks) |->
                    <<KeyToken(ks[i])>>
                    \o BlockValueTokens(h, ks[i], Get(block, ks[i]))])
      \o <<RBrace>>

\* ------------------------------------------------------------------ digest
Multiplier == 31

RECURSIVE PowMod(_, _)
PowMod(b, n) ==
  IF n = 0 THEN 1
  ELSE LET half == PowMod(b, n \div 2)
       IN  IF n % 2 = 0 THEN (half * half) % DigestMod
                        ELSE (half * half * b) % DigestMod

\* the value the digest's round function gives toks[lo..hi] from 0, by halves
RECURSIVE Segment(_, _, _)
Segment(toks, lo, hi) ==
  IF lo = hi THEN toks[lo] % DigestMod
  ELSE LET mid == (lo + hi) \div 2
       IN  (Segment(toks, lo, mid) * PowMod(Multiplier, hi - mid)
              + Segment(toks, mid + 1, hi)) % DigestMod

\* acc, then acc * Multiplier + token for every token in turn, modulo DigestMod
Fold(acc, toks) ==
  IF toks = <<>> THEN acc
  ELSE (acc * PowMod(Multiplier, Len(toks)) + Segment(toks, 1, Len(toks)))
         % DigestMod

RECURSIVE Pow16(_)
Pow16(n) == IF n = 0 THEN 1 ELSE 16 * Pow16(n - 1)

\* the digest as a number below 16^DigestLen; the residue picks how many
\* leading hex zeros the rendering has (6, 5, 4 or none)
sha256(toks) ==
  LET a == Fold(7, toks)
  IN  CASE a % 4 = 0 -> a
        [] a % 4 = 1 -> Pow16(2) + a
        [] a % 4 = 2 -> Pow16(3) + a
        [] OTHER -> Pow16(DigestLen - 1) + a

RECURSIVE HexDigits(_, _)
HexDigits(n, len) ==
  IF len = 0 THEN <<>> ELSE HexDigits(n \div 16, len - 1) \o <<n % 16>>

hexdigest(n) == HexDigits(n, DigestLen)

Zeros(n) == [i \in 1..n |-> 0]

\* --------------------------------------------------------- class Blockchain
VARIABLES chain, current_transactions, heap, request, response, sealed,
          pc, frame

\* request and response are the last request received and the last response
\* sent; sealed counts the mine requests answered with a new block; pc and
\* frame are the position and the local variables of each server thread
vars == <<chain, current_transactions, heap, request, response, sealed,
          pc, frame>>

Threads == {1, 2}

EmptyFrame == [data |-> <<>>, hex_hash |-> <<>>, block |-> <<>>, list |-> 0]

\* the Blockchain object: its two attributes and the lists they refer to
Self == [chain |-> chain, current_transactions |-> current_transactions,
         heap |-> heap]

Block(index, timestamp, transactions, proof, previous_hash) ==
  << <<"index", index>>, <<"timestamp", timestamp>>,
     <<"transactions", transactions>>, <<"proof", proof>>,
     <<"previous_hash", previous_hash>> >>

Transaction(sender, recipient, amount) ==
  << <<"sender", sender>>, <<"recipient", recipient>>, <<"amount", amount>> >>

\* new_block with a 0-based index
new_block_zero_index(self, proof, previous_hash, now) ==
  LET block == Block(Len(self.chain), now, self.current_transactions,
                     proof, previous_hash)
  IN  [chain |-> Append(self.chain, block),
       current_transactions |-> Len(self.heap) + 1,
       heap |-> Append(self.heap, <<>>),
       ret |-> block]

\* new_block that leaves the attribute bound to the list the block took
new_block_no_reset(self, proof, previous_hash, now) ==
  LET block == Block(Len(self.chain) + 1, now, self.current_transactions,
                     proof, previous_hash)
  IN  [chain |-> Append(self.chain, block),
       current_transactions |-> self.current_transactions,
       heap |-> self.heap,
       ret |-> block]

\* new_block that rebinds the attribute before it builds the block
new_block_reset_first(self, proof, previous_hash, now) ==
  LET block == Block(Len(self.chain) + 1, now, Len(self.heap) + 1,
                     proof, previous_hash)
  IN  [chain |-> Append(self.chain, block),
       current_transactions |-> Len(self.heap) + 1,
       heap |-> Append(self.heap, <<>>),
       ret |-> block]

\* new_block whose block loses the oldest pooled transaction
new_block_skips_first(self, proof, previous_hash, now) ==
  LET block == Block(Len(self.chain) + 1, now, self.current_transactions,
                     proof, previous_hash)
      taken == [self.heap EXCEPT ![self.current_transactions] =
                  IF @ = <<>> THEN @ ELSE Tail(@)]
  IN  [chain |-> Append(self.chain, block),
       current_transactions |-> Len(self.heap) + 1,
       heap |-> Append(taken, <<>>),
       ret |-> block]

\* new_block whose new pool starts as a copy of the list the block took
new_block_keeps_pool(self, proof, previous_hash, now) ==
  LET block == Block(Len(self.chain) + 1, now, self.current_transactions,
                     proof, previous_hash)
  IN  [chain |-> Append(self.chain, block),
       current_transactions |-> Len(self.heap) + 1,
       heap |-> Append(self.heap, self.heap[self.current_transactions]),
       ret |-> block]

\* new_block: the block takes the current list itself, the attribute is
\* rebound to a new empty list, and the block is appended to the chain
new_block(self, proof, previous_hash, now) ==
  LET block == Block(Len(self.chain) + 1, now, self.current_transactions,
                     proof, previous_hash)
  IN  [chain |-> Append(self.chain, block),
       current_transactions |-> Len(self.heap) + 1,
       heap |-> Append(self.heap, <<>>),
       ret |-> block]

hash(h, block) == hexdigest(sha256(dumps(h, block)))

\* last_block that returns the first block
last_block_first(self) == self.chain[1]

last_block(self) == self.chain[Len(self.chain)]

\* valid_proof that looks at five digits
valid_proof_five_digits(block_string, proof) ==
  LET guess == block_string \o Decimal(proof)
      guess_hash == hexdigest(sha256(guess))
  IN  SubSeq(guess_hash, 1, Difficulty - 1) = Zeros(Difficulty - 1)

valid_proof(block_string, proof) ==
  LET guess == block_string \o Decimal(proof)
      guess_hash == hexdigest(sha256(guess))
  IN  SubSeq(guess_hash, 1, Difficulty) = Zeros(Difficulty)

\* new_transaction that returns the chain length
new_transaction_returns_length(self, sender, recipient, amount) ==
  LET appended ==
        [self.heap EXCEPT ![self.current_transactions] =
           Append(@, Transaction(sender, recipient, amount))]
  IN  [chain |-> self.chain,
       current_transactions |-> self.current_transactions,
       heap |-> appended,
       ret |-> Get(last_block(self), "index")]

\* new_transaction that replaces the list contents by the new transaction
new_transaction_replaces(self, sender, recipient, amount) ==
  LET replaced ==
        [self.heap EXCEPT ![self.current_transactions] =
           <<Transaction(sender, recipient, amount)>>]
  IN  [chain |-> self.chain,
       current_transactions |-> self.current_transactions,
       heap |-> replaced,
       ret |-> Get(last_block(self), "index") + 1]

new_transaction(self, sender, recipient, amount) ==
  LET appended ==
        [self.heap EXCEPT ![self.current_transactions] =
           Append(@, Transaction(sender, recipient, amount))]
  IN  [chain |-> self.chain,
       current_transactions |-> self.current_transactions,
       heap |-> appended,
       ret |-> Get(last_block(self), "index") + 1]

\* __init__ with the two arguments of the genesis call exchanged
Constructed_swapped(now) ==
  new_block([chain |-> <<>>, current_transactions |-> 1, heap |-> <<<<>>>>],
            GenesisPreviousHash, IntValue(GenesisProof), now)

\* __init__: empty chain, empty list, then the genesis block
Constructed(now) ==
  new_block([chain |-> <<>>, current_transactions |-> 1, heap |-> <<<<>>>>],
            GenesisProof, IntValue(GenesisPreviousHash), now)

\* ------------------------------------------------------------ derived views
\* a block with its transactions list read out of the heap
BlockValue(h, block) ==
  [index |-> Get(block, "index"),
   timestamp |-> Get(block, "timestamp"),
   transactions |-> h[Get(block, "transactions")],
   proof |-> Get(block, "proof"),
   previous_hash |-> Get(block, "previous_hash")]

ChainValue(h, c) == [i \in 1..Len(c) |-> BlockValue(h, c[i])]

Pool == heap[current_transactions]

\* ---------------------------------------------------------------- requests
Required == {"sender", "recipient", "amount"}

Restrict(f, S) == [k \in S |-> f[k]]

\* a complete submission, or one with a single field left out
TxRequests ==
  {Restrict([sender |-> s, recipient |-> r, amount |-> a], S) :
     s \in Senders, r \in Recipients, a \in Amounts,
     S \in {Required} \cup {Required \ {k} : k \in Required}}

MineRequests ==
  {Restrict([id |-> m, proof |-> p], S) :
     m \in MinerIds, p \in Proofs,
     S \in {{"id", "proof"}, {"id"}, {"proof"}}}

NoData == [k \in {} |-> 0]

\* Python truth of a string and of an integer
TruthyStr(v) == v # ""

TruthyInt(v) == v # 0

NoBlock == <<>>

Response(route, status, message) ==
  [route |-> route, status |-> status, message |-> message,
   index |-> 0, block |-> NoBlock, length |-> 0, chain |-> <<>>]

\* what the framework keeps of a response: the body is a function of the
\* ledger at the time it is built
Sent(resp) ==
  [route |-> resp.route, status |-> resp.status, message |-> resp.message,
   index |-> resp.index]

Request(route, data) == [route |-> route, data |-> data]

\* ------------------------------------------------------------------ routes
\* the route with status_code 201 in both branches
new_transaction_route_always_created(self, data) ==
  IF ~(Required \subseteq DOMAIN data)
  THEN [chain |-> self.chain,
        current_transactions |-> self.current_transactions,
        heap |-> self.heap,
        response |-> Response("/transaction/new", 201, "Bad request")]
  ELSE LET r == new_transaction(self, data.sender, data.recipient, data.amount)
       IN  [chain |-> r.chain,
            current_transactions |-> r.current_transactions,
            heap |-> r.heap,
            response |->
              [Response("/transaction/new", 201, "Transaction will post to block")
                 EXCEPT !.index = r.ret]]

\* POST /transaction/new
new_transaction_route(self, data) ==
  IF ~(Required \subseteq DOMAIN data)
  THEN [chain |-> self.chain,
        current_transactions |-> self.current_transactions,
        heap |-> self.heap,
        response |-> Response("/transaction/new", 400, "Bad request")]
  ELSE LET r == new_transaction(self, data.sender, data.recipient, data.amount)
       IN  [chain |-> r.chain,
            current_transactions |-> r.current_transactions,
            heap |-> r.heap,
            response |->
              [Response("/transaction/new", 201, "Transaction will post to block")
                 EXCEPT !.index = r.ret]]

Unchanged(self, resp) ==
  [chain |-> self.chain, current_transactions |-> self.current_transactions,
   heap |-> self.heap, response |-> resp]

\* data['id'] and data['proof']: a missing key raises KeyError, which the
\* framework turns into a 500 response; the second operand is only read
\* when the first is true
MineGuard(data) ==
  IF "id" \notin DOMAIN data THEN "KeyError"
  ELSE IF ~TruthyStr(data.id) THEN "False"
  ELSE IF "proof" \notin DOMAIN data THEN "KeyError"
  ELSE IF ~TruthyInt(data.proof) THEN "False"
  ELSE "True"

\* mine that links the new block with last_hash (line 166) instead of hex_hash
mine_last_hash(self, data, now) ==
  CASE MineGuard(data) = "KeyError" ->
         Unchanged(self, Response("/mine", 500, "Internal Server Error"))
    [] MineGuard(data) = "False" ->
         Unchanged(self, Response("/mine", 400, "Bad request"))
    [] OTHER ->
         LET last_hash == Get(last_block(self), "previous_hash")
             block_string == dumps(self.heap, last_block(self))
         IN  IF valid_proof(block_string, data.proof)
             THEN LET b == new_block(self, data.proof, last_hash, now)
                      t == new_transaction(b, RewardSender, data.id, RewardAmount)
                  IN  [chain |-> t.chain,
                       current_transactions |-> t.current_transactions,
                       heap |-> t.heap,
                       response |->
                         [Response("/mine", 201, "New block forged.")
                            EXCEPT !.block = BlockValue(t.heap, b.ret)]]
             ELSE Unchanged(self,
                            Response("/mine", 200, "Incorrect proof. Try again!"))

\* mine that records the reward before it seals the block
mine_reward_first(self, data, now) ==
  CASE MineGuard(data) = "KeyError" ->
         Unchanged(self, Response("/mine", 500, "Internal Server Error"))
    [] MineGuard(data) = "False" ->
         Unchanged(self, Response("/mine", 400, "Bad request"))
    [] OTHER ->
         LET block_string == dumps(self.heap, last_block(self))
         IN  IF valid_proof(block_string, data.proof)
             THEN LET hex_hash == hexdigest(sha256(block_string))
                      t == new_transaction(self, RewardSender, data.id, RewardAmount)
                      b == new_block(t, data.proof, HexValue(hex_hash), now)
                  IN  [chain |-> b.chain,
                       current_transactions |-> b.current_transactions,
                       heap |-> b.heap,
                       response |->
                         [Response("/mine", 201, "New block forged.")
                            EXCEPT !.block = BlockValue(b.heap, b.ret)]]
             ELSE Unchanged(self,
                            Response("/mine", 200, "Incorrect proof. Try again!"))

\* mine that checks the proof against the first block of the chain
mine_checks_first_block(self, data, now) ==
  CASE MineGuard(data) = "KeyError" ->
         Unchanged(self, Response("/mine", 500, "Internal Server Error"))
    [] MineGuard(data) = "False" ->
         Unchanged(self, Response("/mine", 400, "Bad request"))
    [] OTHER ->
         LET block_string == dumps(self.heap, last_block(self))
         IN  IF valid_proof(dumps(self.heap, self.chain[1]), data.proof)
             THEN LET hex_hash == hexdigest(sha256(block_string))
                      b == new_block(self, data.proof, HexValue(hex_hash), now)
                      t == new_transaction(b, RewardSender, data.id, RewardAmount)
                  IN  [chain |-> t.chain,
                       current_transactions |-> t.current_transactions,
                       heap |-> t.heap,
                       response |->
                         [Response("/mine", 201, "New block forged.")
                            EXCEPT !.block = BlockValue(t.heap, b.ret)]]
             ELSE Unchanged(self,
                            Response("/mine", 200, "Incorrect proof. Try again!"))

\* POST /mine
mine(self, data, now) ==
  CASE MineGuard(data) = "KeyError" ->
         Unchanged(self, Response("/mine", 500, "Internal Server Error"))
    [] MineGuard(data) = "False" ->
         Unchanged(self, Response("/mine", 400, "Bad request"))
    [] OTHER ->
         LET block_string == dumps(self.heap, last_block(self))
         IN  IF valid_proof(block_string, data.proof)
             THEN LET hex_hash == hexdigest(sha256(block_string))
                      b == new_block(self, data.proof, HexValue(hex_hash), now)
                      t == new_transaction(b, RewardSender, data.id, RewardAmount)
                  IN  [chain |-> t.chain,
                       current_transactions |-> t.current_transactions,
                       heap |-> t.heap,
                       response |->
                         [Response("/mine", 201, "New block forged.")
                            EXCEPT !.block = BlockValue(t.heap, b.ret)]]
             ELSE Unchanged(self,
                            Response("/mine", 200, "Incorrect proof. Try again!"))

\* GET /chain
full_chain(self) ==
  [Response("/chain", 200, "") EXCEPT
     !.length = Len(self.chain),
     !.chain = ChainValue(self.heap, self.chain)]

\* GET /last_block
last_block_route(self) ==
  [Response("/last_block", 200, "") EXCEPT
     !.block = BlockValue(self.heap, last_block(self))]

\* ------------------------------------------- requests handled one at a time
Init ==
  \E now \in Times :
    LET b == Constructed(now)
    IN  /\ chain = b.chain
        /\ current_transactions = b.current_transactions
        /\ heap = b.heap
        /\ request = Request("init", NoData)
        /\ response = Sent(Response("init", 0, ""))
        /\ sealed = 0
        /\ pc = [t \in Threads |-> "idle"]
        /\ frame = [t \in Threads |-> EmptyFrame]

Commit(r) ==
  /\ chain' = r.chain
  /\ current_transactions' = r.current_transactions
  /\ heap' = r.heap
  /\ response' = Sent(r.response)

NewTransactionRoute ==
  \E data \in TxRequests :
    /\ Required \subseteq DOMAIN data => Len(Pool) < MaxPool
    /\ request' = Request("/transaction/new", data)
    /\ Commit(new_transaction_route(Self, data))
    /\ UNCHANGED <<sealed, pc, frame>>

\* time() is only read when a block is built
Seals(self, data) ==
  /\ MineGuard(data) = "True"
  /\ valid_proof(dumps(self.heap, last_block(self)), data.proof)

\* the clock does not run backwards between two blocks
Clock(self) == {t \in Times : t >= Get(last_block(self), "timestamp")}

MineRoute ==
  \E data \in MineRequests :
    LET seals == Seals(Self, data)
    IN  \E now \in IF seals THEN Clock(Self) ELSE {0} :
          /\ seals => Len(chain) < MaxChain
          /\ request' = Request("/mine", data)
          /\ Commit(mine(Self, data, now))
          /\ sealed' = IF response'.status = 201 THEN sealed + 1 ELSE sealed
          /\ UNCHANGED <<pc, frame>>

FullChainRoute ==
  /\ request' = Request("/chain", NoData)
  /\ response' = Sent(full_chain(Self))
  /\ UNCHANGED <<chain, current_transactions, heap, sealed, pc, frame>>

LastBlockRoute ==
  /\ request' = Request("/last_block", NoData)
  /\ response' = Sent(last_block_route(Self))
  /\ UNCHANGED <<chain, current_transactions, heap, sealed, pc, frame>>

Next ==
  \/ NewTransactionRoute
  \/ MineRoute
  \/ FullChainRoute
  \/ LastBlockRoute

Spec == Init /\ [][Next]_vars

\* ------------------------------------------ requests handled by two threads
\* The server runs each request in its own thread and the code takes no
\* lock: a thread may be suspended between any two statements.  Each step
\* below is one statement (or a run of statements that touch no shared
\* object).

Goto(t, label) == pc' = [pc EXCEPT ![t] = label]

Answer(t, resp) ==
  /\ response' = Sent(resp)
  /\ pc' = [pc EXCEPT ![t] = "idle"]
  /\ frame' = [frame EXCEPT ![t] = EmptyFrame]

\* threads that may still append a block
Sealing == {t \in Threads : pc[t] \in {"build", "reset", "append"}}

\* threads that may still append a submitted transaction
Submitting == {t \in Threads : pc[t] = "tx_append"}

\* mine, lines 162-174: the request, the guard, the last block's string and
\* the proof check; the request of a thread is kept in its frame
MineCheck(t) ==
  /\ pc[t] = "idle"
  /\ Len(chain) + Cardinality(Sealing) < MaxChain
  /\ \E data \in MineRequests :
       LET block_string == dumps(heap, last_block(Self))
       IN  CASE MineGuard(data) = "KeyError" ->
                  Answer(t, Response("/mine", 500, "Internal Server Error"))
             [] MineGuard(data) = "False" ->
                  Answer(t, Response("/mine", 400, "Bad request"))
             [] OTHER ->
                  IF valid_proof(block_string, data.proof)
                  THEN /\ frame' = [frame EXCEPT
                                      ![t].data = data,
                                      ![t].hex_hash =
                                        hexdigest(sha256(block_string))]
                       /\ Goto(t, "build")
                       /\ UNCHANGED response
                  ELSE Answer(t, Response("/mine", 200,
                                          "Incorrect proof. Try again!"))
  /\ UNCHANGED <<chain, current_transactions, heap, request, sealed>>

\* new_block, lines 34-40
NewBlockBuild(t) ==
  /\ pc[t] = "build"
  /\ \E now \in Clock(Self) :
       frame' = [frame EXCEPT ![t].block =
                   Block(Len(chain) + 1, now, current_transactions,
                         frame[t].data.proof, HexValue(frame[t].hex_hash))]
  /\ Goto(t, "reset")
  /\ UNCHANGED <<chain, current_transactions, heap, request, response, sealed>>

\* new_block, line 43
NewBlockReset(t) ==
  /\ pc[t] = "reset"
  /\ heap' = Append(heap, <<>>)
  /\ current_transactions' = Len(heap) + 1
  /\ Goto(t, "append")
  /\ UNCHANGED <<chain, request, response, sealed, frame>>

\* new_block, line 45
NewBlockAppend(t) ==
  /\ pc[t] = "append"
  /\ chain' = Append(chain, frame[t].block)
  /\ Goto(t, "reward")
  /\ UNCHANGED <<current_transactions, heap, request, response, sealed, frame>>

\* new_transaction called by mine, line 116: the list is looked up
RewardLoad(t) ==
  /\ pc[t] = "reward"
  /\ frame' = [frame EXCEPT ![t].list = current_transactions]
  /\ Goto(t, "reward_append")
  /\ UNCHANGED <<chain, current_transactions, heap, request, response, sealed>>

\* new_transaction called by mine, lines 116-120: the append
RewardAppend(t) ==
  /\ pc[t] = "reward_append"
  /\ heap' = [heap EXCEPT ![frame[t].list] =
                Append(@, Transaction(RewardSender, frame[t].data.id,
                                      RewardAmount))]
  /\ Goto(t, "forged")
  /\ UNCHANGED <<chain, current_transactions, request, response, sealed, frame>>

\* mine, lines 180-196
MineAnswer(t) ==
  /\ pc[t] = "forged"
  /\ Answer(t, [Response("/mine", 201, "New block forged.")
                  EXCEPT !.block = BlockValue(heap, frame[t].block)])
  /\ sealed' = sealed + 1
  /\ UNCHANGED <<chain, current_transactions, heap, request>>

\* route new_transaction, lines 139-146, and new_transaction, line 116: the
\* request, the field check and the lookup of the list
TxCheck(t) ==
  /\ pc[t] = "idle"
  /\ \E data \in TxRequests :
       IF ~(Required \subseteq DOMAIN data)
       THEN Answer(t, Response("/transaction/new", 400, "Bad request"))
       ELSE /\ Len(Pool) + Cardinality(Submitting) < MaxPool
            /\ frame' = [frame EXCEPT ![t].data = data,
                                      ![t].list = current_transactions]
            /\ Goto(t, "tx_append")
            /\ UNCHANGED response
  /\ UNCHANGED <<chain, current_transactions, heap, request, sealed>>

\* new_transaction, lines 116-120: the append
TxAppend(t) ==
  /\ pc[t] = "tx_append"
  /\ heap' = [heap EXCEPT ![frame[t].list] =
                Append(@, Transaction(frame[t].data.sender,
                                      frame[t].data.recipient,
                                      frame[t].data.amount))]
  /\ Goto(t, "tx_return")
  /\ UNCHANGED <<chain, current_transactions, request, response, sealed, frame>>

\* new_transaction, line 122, and the route, lines 149-155
TxAnswer(t) ==
  /\ pc[t] = "tx_return"
  /\ Answer(t, [Response("/transaction/new", 201,
                         "Transaction will post to block")
                  EXCEPT !.index = Get(last_block(Self), "index") + 1])
  /\ UNCHANGED <<chain, current_transactions, heap, request, sealed>>

\* full_chain, lines 202-206
FullChainAnswer(t) ==
  /\ pc[t] = "idle"
  /\ Answer(t, full_chain(Self))
  /\ UNCHANGED <<chain, current_transactions, heap, request, sealed>>

\* last_block, lines 212-215
LastBlockAnswer(t) ==
  /\ pc[t] = "idle"
  /\ Answer(t, last_block_route(Self))
  /\ UNCHANGED <<chain, current_transactions, heap, request, sealed>>

NextConc ==
  \E t \in Threads :
    \/ MineCheck(t)
    \/ NewBlockBuild(t)
    \/ NewBlockReset(t)
    \/ NewBlockAppend(t)
    \/ RewardLoad(t)
    \/ RewardAppend(t)
    \/ MineAnswer(t)
    \/ TxCheck(t)
    \/ TxAppend(t)
    \/ TxAnswer(t)
    \/ FullChainAnswer(t)
    \/ LastBlockAnswer(t)

SpecConc == Init /\ [][NextConc]_vars

\* ------------------------------------------------------------------ claims
LastTransactions == heap[Get(chain[Len(chain)], "transactions")]

Reward(m) == Transaction(RewardSender, m, RewardAmount)

Forged == "New block forged."

Incorrect == "Incorrect proof. Try again!"

\* C1: every block after the first carries, as previous_hash, the hash of
\* the block before it as that block stands in the current state.
C1_ChainLinked ==
  \A i \in 2..Len(chain) :
    Get(chain[i], "previous_hash") = HexValue(hash(heap, chain[i - 1]))

C1_Witness ==
  /\ Len(chain) >= 3
  /\ response.message = Incorrect
  /\ Len(Pool) >= 2

\* C2: after N sealed blocks the chain has N+1 blocks and the block at
\* position i (counted from 1) has index i.
C2_IndexIsPosition ==
  /\ Len(chain) = sealed + 1
  /\ \A i \in 1..Len(chain) : Get(chain[i], "index") = i

C2_Witness ==
  /\ sealed >= 2
  /\ response.route = "/transaction/new"
  /\ response.status = 201

\* C3: before any request is handled the ledger holds one block, with
\* index 1, proof 100, the sentinel previous_hash and no transactions, and
\* the pending pool is empty.
C3_Genesis ==
  response.route = "init" =>
    /\ Len(chain) = 1
    /\ Get(chain[1], "index") = 1
    /\ Get(chain[1], "proof") = GenesisProof
    /\ Get(chain[1], "previous_hash") = IntValue(GenesisPreviousHash)
    /\ heap[Get(chain[1], "transactions")] = <<>>
    /\ Pool = <<>>

C3_Witness == response.route = "init" /\ sealed = 0 /\ Len(chain) = 1

SealStep == Len(chain') = Len(chain) + 1

\* C4 as stated: a step that seals a block puts the pool, in order, in the
\* new block and leaves the pool empty.
C4_PoolEmptyAfterSeal ==
  [][SealStep =>
       /\ heap'[Get(chain'[Len(chain')], "transactions")] = Pool
       /\ heap'[current_transactions'] = <<>>]_vars

\* C4 amended: a step that seals a block puts the pool, in order, in the
\* new block and leaves in the pool exactly the reward transaction of the
\* miner.
C4_PoolHoldsRewardAfterSeal ==
  [][SealStep =>
       /\ heap'[Get(chain'[Len(chain')], "transactions")] = Pool
       /\ \E m \in MinerIds : heap'[current_transactions'] = <<Reward(m)>>]_vars

C4_Witness ==
  /\ response.message = Forged
  /\ Len(LastTransactions) >= 2
  /\ Pool = <<Reward("m1")>>

MineStep == request'.route = "/mine"

BothPresent(data) == DOMAIN data = {"id", "proof"}

LedgerUnchanged ==
  /\ chain' = chain
  /\ current_transactions' = current_transactions
  /\ heap' = heap

\* C5 as stated: a mine request that carries a miner id and a proof that
\* fails the predicate against the last block changes neither chain nor
\* pool and is answered "Incorrect proof".
C5_RejectedMineReported ==
  [][(/\ MineStep
      /\ BothPresent(request'.data)
      /\ ~valid_proof(dumps(heap, last_block(Self)), request'.data.proof))
       => LedgerUnchanged /\ response'.message = Incorrect]_vars

\* the ledger half of C5, which the code keeps: such a request changes
\* neither chain nor pool
C5_RejectedMineUnchanged ==
  [][(/\ MineStep
      /\ BothPresent(request'.data)
      /\ ~valid_proof(dumps(heap, last_block(Self)), request'.data.proof))
       => LedgerUnchanged]_vars

TxStep == request'.route = "/transaction/new" /\ response'.status = 201

\* C6: an accepted submission appends its transaction at the end of the
\* pool, changes no block of the chain, and returns the chain length plus 1.
C6_NewTransactionAppends ==
  [][TxStep =>
       /\ current_transactions' = current_transactions
       /\ heap'[current_transactions] =
            Append(Pool, Transaction(request'.data.sender,
                                     request'.data.recipient,
                                     request'.data.amount))
       /\ ChainValue(heap', chain') = ChainValue(heap, chain)
       /\ response'.index = Len(chain) + 1]_vars

C6_Witness ==
  /\ request.route = "/transaction/new"
  /\ response.status = 201
  /\ response.index = 3
  /\ Len(Pool) >= 2

\* C7: in every step the chain before, blocks read with their transaction
\* lists, is a prefix of the chain after.
C7_AppendOnly ==
  [][IsPrefix(ChainValue(heap, chain), ChainValue(heap', chain'))]_vars

C7_Witness ==
  /\ Len(chain) >= 3
  /\ Len(heap[Get(chain[2], "transactions")]) >= 1
  /\ request.route = "/transaction/new"
  /\ response.status = 201

\* C8: a step in which the pool is not extended seals a block, and a step
\* that seals a block binds the pool to a new list that holds only the
\* reward of that step, the old list being the new block's transactions.
C8_PoolClearedOnlyBySeal ==
  [][/\ ~IsPrefix(Pool, heap'[current_transactions']) => SealStep
     /\ SealStep =>
          /\ current_transactions' \notin DOMAIN heap
          /\ Get(chain'[Len(chain')], "transactions") = current_transactions
          /\ \E m \in MinerIds : heap'[current_transactions'] = <<Reward(m)>>]_vars

C8_Witness ==
  /\ response.message = Forged
  /\ Len(chain) >= 3
  /\ Len(LastTransactions) >= 2
  /\ Len(Pool) = 1

\* C9: the chain never holds two blocks that claim the same index or the
\* same previous_hash, also when mine requests are handled concurrently.
C9_NoTwoBlocksAlike ==
  \A i, j \in 1..Len(chain) :
    i < j =>
      /\ Get(chain[i], "index") # Get(chain[j], "index")
      /\ Get(chain[i], "previous_hash") # Get(chain[j], "previous_hash")

\* C10: between the statement of new_block that clears the pool and the
\* one that appends the block no other request takes a step, so none reads
\* or writes the ledger while the pool is cleared and the block not yet in
\* the chain.
C10_SealIsAtomic ==
  [][\A t \in Threads : pc[t] = "append" => pc'[t] = "reward"]_vars

BadRequest == "Bad request"

\* C11: a mine request without id or without proof is answered "Bad
\* request"; one that carries both, whatever their values, has its proof
\* checked and is answered with a new block or "Incorrect proof"; a request
\* answered "Bad request" changes neither chain nor pool.
C11_MineOutcomes ==
  [][MineStep =>
       /\ IF BothPresent(request'.data)
          THEN response'.message \in {Forged, Incorrect}
          ELSE response'.message = BadRequest
       /\ response'.message = BadRequest => LedgerUnchanged]_vars

SubmitStep == request'.route = "/transaction/new"

\* C12: a submission that lacks sender, recipient or amount is answered
\* 400 "Bad request" and changes neither pool nor chain; one that carries
\* all three is answered 201 and makes the pool one transaction longer,
\* the chain staying as it is.
C12_SubmissionChecked ==
  [][SubmitStep =>
       IF Required \subseteq DOMAIN request'.data
       THEN /\ response'.status = 201
            /\ current_transactions' = current_transactions
            /\ Len(heap'[current_transactions']) = Len(Pool) + 1
            /\ IsPrefix(Pool, heap'[current_transactions'])
            /\ ChainValue(heap', chain') = ChainValue(heap, chain)
       ELSE /\ response'.status = 400
            /\ response'.message = BadRequest
            /\ LedgerUnchanged]_vars

C12_Witness ==
  /\ request.route = "/transaction/new"
  /\ ~(Required \subseteq DOMAIN request.data)
  /\ response.status = 400
  /\ Len(Pool) >= 1
  /\ Len(chain) >= 2

IsReward(tx) == \E m \in MinerIds : tx = Reward(m)

Rewards(txs) == {j \in 1..Len(txs) : IsReward(txs[j])}

BlockTransactions(i) == heap[Get(chain[i], "transactions")]

\* C13: the reward of the block at index k is not in block k but in block
\* k+1. The genesis block and the first sealed block (index 2) hold no
\* reward; every later block holds exactly one, the reward of the block
\* before it, ahead of the submitted transactions; and once a block has
\* been sealed the pool starts with the one reward that is still to be
\* recorded, that of the last block.
C13_RewardInFollowingBlock ==
  /\ \A i \in 1..Len(chain) :
       IF i <= 2 THEN Rewards(BlockTransactions(i)) = {}
                 ELSE Rewards(BlockTransactions(i)) = {1}
  /\ Rewards(Pool) = IF Len(chain) >= 2 THEN {1} ELSE {}

C13_Witness ==
  /\ Len(chain) >= 3
  /\ BlockTransactions(2) # <<>>
  /\ BlockTransactions(3)[1] = Reward("m1")
  /\ Len(BlockTransactions(3)) >= 2
  /\ Pool = <<Reward("m1")>>

\* the number of '0' characters a digest starts with
LeadingZeros(ds) ==
  CHOOSE n \in 0..Len(ds) :
    /\ \A i \in 1..n : ds[i] = 0
    /\ n = Len(ds) \/ ds[n + 1] # 0

LastBlockString == dumps(heap, chain[Len(chain)])

GuessDigest(p) == hexdigest(sha256(LastBlockString \o Decimal(p)))

Reversed(d) == [i \in 1..Len(d) |-> d[Len(d) + 1 - i]]

\* a dict with the same items, the first one inserted last
Rotated(d) == IF d = <<>> THEN d ELSE Tail(d) \o <<Head(d)>>

\* the heap with the items of every transaction in the opposite order
ReversedHeap == [j \in 1..Len(heap) |->
                   [i \in 1..Len(heap[j]) |-> Reversed(heap[j][i])]]

\* C15: the hash of a block does not depend on the order in which its
\* fields, or the fields of its transactions, were inserted: a block of
\* the chain and the same block with its items reversed or rotated have
\* the same hash.
C15_HashIgnoresFieldOrder ==
  \A i \in 1..Len(chain) :
    /\ hash(heap, Reversed(chain[i])) = hash(heap, chain[i])
    /\ hash(heap, Rotated(chain[i])) = hash(heap, chain[i])
    /\ hash(ReversedHeap, Reversed(chain[i])) = hash(heap, chain[i])

C15_Witness ==
  /\ Len(chain) >= 3
  /\ Len(BlockTransactions(3)) >= 2
  /\ InsertionKeys(Reversed(chain[3])) # InsertionKeys(chain[3])
  /\ hash(ReversedHeap, Reversed(chain[3])) = hash(heap, chain[3])
  /\ hash(heap, chain[3]) # hash(heap, chain[2])

\* C16: the chain is never empty, its first block is the genesis block
\* (index 1, proof 100, the sentinel previous_hash), and last_block returns
\* the block appended last: its index is the chain length and every other
\* block has a smaller index.
C16_LastBlockIsNewest ==
  /\ Len(chain) >= 1
  /\ Get(chain[1], "index") = 1
  /\ Get(chain[1], "proof") = GenesisProof
  /\ Get(chain[1], "previous_hash") = IntValue(GenesisPreviousHash)
  /\ Get(last_block(Self), "index") = Len(chain)
  /\ \A i \in 1..(Len(chain) - 1) :
       Get(chain[i], "index") < Get(last_block(Self), "index")

C16_Witness ==
  /\ response.route = "/last_block"
  /\ Len(chain) >= 3
  /\ Get(last_block(Self), "index") = 3
  /\ Get(last_block(Self), "proof") # GenesisProof

PoolAfter == heap'[current_transactions']

NewBlockTransactions == heap'[Get(chain'[Len(chain')], "transactions")]

\* C17: an accepted submission is answered with the index k = chain length
\* + 1 and its transaction becomes the last of the pool; every step that
\* seals no block keeps the pooled transactions, in order, at the front of
\* the pool; and the step that seals the next block gives that block the
\* index k and the whole pool, in order, so that no pooled transaction is
\* skipped.
C17_RecordedUnderReturnedIndex ==
  [][/\ TxStep =>
          /\ response'.index = Len(chain) + 1
          /\ PoolAfter =
               Append(Pool, Transaction(request'.data.sender,
                                        request'.data.recipient,
                                        request'.data.amount))
     /\ ~SealStep => Len(chain') = Len(chain) /\ IsPrefix(Pool, PoolAfter)
     /\ SealStep =>
          /\ Get(chain'[Len(chain')], "index") = Len(chain) + 1
          /\ NewBlockTransactions = Pool]_vars

\* a transaction answered with index 3 stands in the block of index 3
C17_Witness ==
  /\ response.message = Forged
  /\ Len(chain) = 3
  /\ Get(chain[3], "index") = 3
  /\ \E j \in 1..Len(BlockTransactions(3)) :
       BlockTransactions(3)[j] = Transaction("A", "B", 5)

\* C18: the append of a submitted transaction (new_transaction, line 116),
\* whatever a concurrent mine request has done since the submission
\* started, leaves the transactions of every block already in the chain as
\* they were.
C18_SealedBlockIsSnapshot ==
  [][\A t \in Threads :
       pc[t] = "tx_append" /\ pc'[t] = "tx_return" =>
         ChainValue(heap', chain) = ChainValue(heap, chain)]_vars

\* the proof-of-work condition, stated on the count of leading zeros
Satisfies(block, proof) ==
  LeadingZeros(hexdigest(sha256(dumps(heap, block) \o Decimal(proof))))
    >= Difficulty

\* C19: the proof of every block after the first satisfies the
\* proof-of-work condition against the serialization of the block before
\* it.
C19_ProofFitsPredecessor ==
  \A i \in 2..Len(chain) : Satisfies(chain[i - 1], Get(chain[i], "proof"))

\* a proof that fits the first block but not the last one has just been
\* refused
C19_Witness ==
  /\ request.route = "/mine"
  /\ BothPresent(request.data)
  /\ response.message = Incorrect
  /\ Len(chain) >= 2
  /\ Satisfies(chain[1], request.data.proof)
  /\ ~Satisfies(chain[Len(chain)], request.data.proof)

\* every recorded transaction: those of the blocks in chain order, then the
\* pool; a list held twice is counted twice
Ledger(h, c, ct) ==
  Flatten([i \in 1..Len(c) |-> h[Get(c[i], "transactions")]]) \o h[ct]

\* C20: the transactions of the blocks, in chain order, followed by those
\* of the pool form one sequence that only grows at its end and only by
\* the transaction just accepted: the submitted one on an accepted
\* submission, the miner's reward on a seal, nothing on any other step. So
\* none is lost, none is held twice, and arrival order is kept.
C20_TransactionsConserved ==
  [][Ledger(heap', chain', current_transactions') =
       IF TxStep
       THEN Append(Ledger(heap, chain, current_transactions),
                   Transaction(request'.data.sender,
                               request'.data.recipient,
                               request'.data.amount))
       ELSE IF SealStep
       THEN Append(Ledger(heap, chain, current_transactions),
                   Reward(request'.data.id))
       ELSE Ledger(heap, chain, current_transactions)]_vars

C20_Witness ==
  /\ Len(chain) >= 3
  /\ Len(BlockTransactions(2)) >= 1
  /\ Len(BlockTransactions(3)) >= 2
  /\ Len(Pool) >= 2
  /\ Len(Ledger(heap, chain, current_transactions)) >= 5

====
